---------------------------- MODULE Spec2Model ----------------------------
(***************************************************************************)
(* Model of bayes_ttest (src/bayesian_statistics.ipynb, lines 33-107):     *)
(* one call of the function, from its arguments to its return or to the    *)
(* exception that leaves it.  The probabilistic-programming library (pm),  *)
(* the plotting library and gen_data are the environment: they are         *)
(* modelled by what the function hands to them and by a nondeterministic   *)
(* choice of what they hand back.                                          *)
(*                                                                         *)
(* Numbers.  A float is a record [num, den]: den > 0 is the rational       *)
(* num/den in lowest terms, den = 0 is one of numpy's non-finite values    *)
(* (num = 1: inf, num = -1: -inf, num = 0: nan).  Sample values and trace  *)
(* draws are small integers, for which float64 arithmetic on sums is       *)
(* exact; rounding of binary floating point is not modelled.               *)
(***************************************************************************)
EXTENDS Integers, Sequences, FiniteSets, TLC

\* ------------------------------------------------------------------ bounds
MaxSampleLen == 2
TraceLen == 2

\* ------------------------------------------------- constants of the source
DefaultN == 40
GenDataN == 40
TotalIterations == 40000
BurnIn == 10000
ThinStride == 2
ScaleSpan == 1000
NuBetaDen == 29
PrintDigits == 4

\* ----------------------------------------------------------- float helpers
Abs(x) == IF x < 0 THEN -x ELSE x

RECURSIVE GCD(_, _)
GCD(a, b) == IF b = 0 THEN a ELSE GCD(b, a % b)

Inf == [num |-> 1, den |-> 0]
NegInf == [num |-> -1, den |-> 0]
NaN == [num |-> 0, den |-> 0]

IsFinite(x) == x.den > 0

\* n/d for integers n, d with d > 0, in lowest terms
Rat(n, d) ==
  LET g == GCD(Abs(n), d)
  IN  [num |-> (IF n < 0 THEN -(Abs(n) \div g) ELSE n \div g), den |-> d \div g]

FromInt(n) == [num |-> n, den |-> 1]

Sign(n) == IF n > 0 THEN 1 ELSE IF n < 0 THEN -1 ELSE 0

\* numpy float64 division: x/0 is inf, -inf or nan (with a RuntimeWarning),
\* never an exception
FDiv(x, y) ==
  IF ~IsFinite(x) \/ ~IsFinite(y)
  THEN (IF x = NaN \/ y = NaN \/ (~IsFinite(x) /\ ~IsFinite(y)) THEN NaN
        ELSE IF ~IsFinite(x)
             THEN (IF y.num = 0 THEN x
                   ELSE [num |-> x.num * Sign(y.num), den |-> 0])
             ELSE FromInt(0))
  ELSE IF y.num = 0
       THEN [num |-> Sign(x.num), den |-> 0]
       ELSE Rat(x.num * y.den * Sign(y.num), x.den * Abs(y.num))

FMul(x, y) ==
  IF ~IsFinite(x) \/ ~IsFinite(y)
  THEN (IF x = NaN \/ y = NaN \/ x.num = 0 \/ y.num = 0 THEN NaN
        ELSE [num |-> Sign(x.num) * Sign(y.num), den |-> 0])
  ELSE Rat(x.num * y.num, x.den * y.den)

FAdd(x, y) ==
  IF ~IsFinite(x) \/ ~IsFinite(y)
  THEN (IF x = NaN \/ y = NaN THEN NaN
        ELSE IF ~IsFinite(x) /\ ~IsFinite(y)
             THEN (IF x = y THEN x ELSE NaN)
             ELSE IF ~IsFinite(x) THEN x ELSE y)
  ELSE Rat(x.num * y.den + y.num * x.den, x.den * y.den)

FNeg(x) == [num |-> -x.num, den |-> x.den]

FSub(x, y) == FAdd(x, FNeg(y))

\* x < y on finite floats
FLess(x, y) == x.num * y.den < y.num * x.den

\* ------------------------------------------------------ numpy array helpers
RECURSIVE SumInts(_)
SumInts(s) == IF s = <<>> THEN 0 ELSE Head(s) + SumInts(Tail(s))

RECURSIVE SumSquares(_)
SumSquares(s) == IF s = <<>> THEN 0 ELSE Head(s) * Head(s) + SumSquares(Tail(s))

RECURSIVE SumFloats(_)
SumFloats(s) == IF s = <<>> THEN FromInt(0) ELSE FAdd(Head(s), SumFloats(Tail(s)))

\* ndarray.mean() of an integer array
MeanInts(s) == Rat(SumInts(s), Len(s))

\* ndarray.var() of an integer array: the population variance (ddof = 0)
VarInts(s) == Rat(Len(s) * SumSquares(s) - SumInts(s) * SumInts(s), Len(s) * Len(s))

\* ndarray.mean() of a float array
MeanFloats(s) == FDiv(SumFloats(s), FromInt(Len(s)))


\* ------------------------------------------------------------------ inputs
\* values a sample may hold
Values == {0, 1}

\* a Sample: a non-empty sequence of numbers
Samples == UNION {[1..n -> Values] : n \in 1..MaxSampleLen}

\* sizes of the group collections a caller supplies: none, one, two, three
GroupCounts == 0..3

GroupCollections == UNION {[1..k -> Samples] : k \in GroupCounts}

\* the argument groups: None (the default) or a collection of samples
NoGroups == [isNone |-> TRUE, items |-> <<>>]

GroupArgs == {NoGroups} \cup {[isNone |-> FALSE, items |-> g] : g \in GroupCollections}

\* the argument N: a positive integer, 40 by default
NArgs == {2, DefaultN}

\* gen_data(N): two numeric samples of the given size; the samples a call
\* may get back, here those with one value at the front and one in the rest
GenSample(n, a, b) == [i \in 1..n |-> IF i = 1 THEN a ELSE b]

gen_data(n) ==
  {<<GenSample(n, a1, b1), GenSample(n, a2, b2)>> :
      <<a1, b1, a2, b2>> \in {<<0, 0, 0, 0>>, <<0, 1, 0, 1>>, <<0, 1, 1, 1>>, <<1, 1, 0, 0>>}}

\* ------------------------------------------------------------------- state
VARIABLES
  groups,        \* argument groups
  N,             \* argument N
  show,          \* argument show
  pc,            \* the statement the call is at
  checks,        \* the argument checks the call has made so far
  genRequest,    \* the size asked of gen_data, 0 when it was not called
  group1,        \* local group1, <<>> while unbound
  group2,        \* local group2, <<>> while unbound
  pooled,        \* local pooled, <<>> while unbound
  priors,        \* the arguments given to the five prior constructors
  nodes,         \* the nodes handed to pm.Model, in the order of the list
  engineCalls,   \* how often mcmc.sample was called
  engineConfig,  \* the arguments of the last mcmc.sample call
  engineFailures,\* how often mcmc.sample raised
  mcmc,          \* the joint draws the engine retained, <<>> before sampling
  traces,        \* locals mus1, mus2, sigmas1, sigmas2, nus
  derived,       \* locals diff_mus, diff_sigmas, normality, effect_size
  stdout,        \* what the call printed, in order
  plotted,       \* the curves handed to the plotting library, in order
  plotFailures,  \* how often the plotting block raised
  outcome,       \* "running", "returned" or "raised"
  retval,        \* the value returned, "None" for a bare return
  exc            \* the exception that left the call, "" when none

vars == <<groups, N, show, pc, checks, genRequest, group1, group2, pooled, priors, nodes,
          engineCalls, engineConfig, engineFailures, mcmc, traces, derived,
          stdout, plotted, plotFailures, outcome, retval, exc>>

NoPrior == [family |-> "", mu |-> NaN, tau |-> NaN, lower |-> NaN, upper |-> NaN,
            beta |-> NaN]

NoPriors == [mu_1 |-> NoPrior, mu_2 |-> NoPrior, sigma_1 |-> NoPrior,
             sigma_2 |-> NoPrior, nu |-> NoPrior]

NoTraces == [mus1 |-> <<>>, mus2 |-> <<>>, sigmas1 |-> <<>>, sigmas2 |-> <<>>,
             nus |-> <<>>]

NoDerived == [diff_mus |-> <<>>, diff_sigmas |-> <<>>, normality |-> <<>>,
              effect_size |-> <<>>]

Init ==
  /\ groups \in GroupArgs
  /\ N \in NArgs
  /\ show \in BOOLEAN
  /\ pc = "resolve"
  /\ checks = {}
  /\ genRequest = 0
  /\ group1 = <<>>
  /\ group2 = <<>>
  /\ pooled = <<>>
  /\ priors = NoPriors
  /\ nodes = <<>>
  /\ engineCalls = 0
  /\ engineConfig = <<0, 0, 0>>
  /\ engineFailures = 0
  /\ mcmc = <<>>
  /\ traces = NoTraces
  /\ derived = NoDerived
  /\ stdout = <<>>
  /\ plotted = <<>>
  /\ plotFailures = 0
  /\ outcome = "running"
  /\ retval = "None"
  /\ exc = ""

\* ------------------------------------------------- lines 37-43: the groups
\* the size gen_data is asked for at line 38
GenDataArg(n) == GenDataN

\* line 37-38: groups is None, two samples are generated
ResolveGenerated ==
  /\ pc = "resolve"
  /\ groups.isNone
  /\ \E g \in gen_data(GenDataArg(N)) :
       /\ group1' = g[1]
       /\ group2' = g[2]
  /\ genRequest' = GenDataArg(N)
  /\ pc' = "pool"
  /\ UNCHANGED <<groups, N, show, checks, pooled, priors, nodes, engineCalls, engineConfig,
                 engineFailures, mcmc, traces, derived, stdout, plotted,
                 plotFailures, outcome, retval, exc>>

\* the test of line 39 with the comparison "fewer than two"
WrongCount_fewer(g) == Len(g) < 2

\* the test of line 39
WrongCount(g) == Len(g) # 2

\* line 39-41 raising an exception instead of printing and returning
ResolveRejected_raises ==
  /\ pc = "resolve"
  /\ ~groups.isNone
  /\ WrongCount(groups.items)
  /\ checks' = checks \cup {"group_count"}
  /\ outcome' = "raised"
  /\ exc' = "InvalidGroupCount"
  /\ pc' = "done"
  /\ UNCHANGED <<groups, N, show, genRequest, group1, group2, pooled, priors, nodes,
                 engineCalls, engineConfig, engineFailures, mcmc, traces, derived,
                 stdout, plotted, plotFailures, retval>>

\* line 39-41: a message is printed and the call returns None
ResolveRejected ==
  /\ pc = "resolve"
  /\ ~groups.isNone
  /\ WrongCount(groups.items)
  /\ stdout' = Append(stdout, [text |-> "T-test requires only 2 groups, not %i",
                               values |-> <<FromInt(Len(groups.items))>>])
  /\ checks' = checks \cup {"group_count"}
  /\ outcome' = "returned"
  /\ retval' = "None"
  /\ pc' = "done"
  /\ UNCHANGED <<groups, N, show, genRequest, group1, group2, pooled, priors, nodes,
                 engineCalls, engineConfig, engineFailures, mcmc, traces, derived,
                 plotted, plotFailures, exc>>

\* line 42-43: the two samples are unpacked
ResolveSupplied ==
  /\ pc = "resolve"
  /\ ~groups.isNone
  /\ ~WrongCount(groups.items)
  /\ group1' = groups.items[1]
  /\ group2' = groups.items[2]
  /\ checks' = checks \cup {"group_count"}
  /\ pc' = "pool"
  /\ UNCHANGED <<groups, N, show, genRequest, pooled, priors, nodes, engineCalls,
                 engineConfig, engineFailures, mcmc, traces, derived, stdout,
                 plotted, plotFailures, outcome, retval, exc>>

\* ------------------------------------------------------ line 45: the pool
\* the pool made of the first group alone
Concatenate_firstOnly(g1, g2) == g1

\* np.concatenate((group1, group2))
Concatenate(g1, g2) == g1 \o g2

Pool ==
  /\ pc = "pool"
  /\ pooled' = Concatenate(group1, group2)
  /\ pc' = "priors"
  /\ UNCHANGED <<groups, N, show, checks, genRequest, group1, group2, priors, nodes,
                 engineCalls, engineConfig, engineFailures, mcmc, traces, derived,
                 stdout, plotted, plotFailures, outcome, retval, exc>>

\* --------------------------------------------------- lines 47-51: the priors
\* pm.Normal(name, mu=pooled.mean(), tau=1.0/pooled.var()/N)
NormalPrior(p, n) ==
  [NoPrior EXCEPT !.family = "Normal",
                  !.mu = MeanInts(p),
                  !.tau = FDiv(FDiv(FromInt(1), VarInts(p)), FromInt(n))]

\* pm.Uniform(name, lower=pooled.var()/1000.0, upper=pooled.var()*1000)
UniformPrior(p) ==
  [NoPrior EXCEPT !.family = "Uniform",
                  !.lower = FDiv(VarInts(p), FromInt(ScaleSpan)),
                  !.upper = FMul(VarInts(p), FromInt(ScaleSpan))]

\* pm.Exponential("nu", beta=1.0/29)
ExponentialPrior ==
  [NoPrior EXCEPT !.family = "Exponential", !.beta = Rat(1, NuBetaDen)]

PriorSpecs(p, n) ==
  [mu_1 |-> NormalPrior(p, n), mu_2 |-> NormalPrior(p, n),
   sigma_1 |-> UniformPrior(p), sigma_2 |-> UniformPrior(p),
   nu |-> ExponentialPrior]

BuildPriors ==
  /\ pc = "priors"
  /\ priors' = PriorSpecs(pooled, N)
  /\ pc' = "model"
  /\ UNCHANGED <<groups, N, show, checks, genRequest, group1, group2, pooled, nodes,
                 engineCalls, engineConfig, engineFailures, mcmc, traces, derived,
                 stdout, plotted, plotFailures, outcome, retval, exc>>

\* ------------------------------------------- lines 54-61: likelihood, model
\* pm.NoncentralT(name, mu=.., lam=1.0/sig, nu=v, value=group, observed=True)
NoncentralT(name, mu, sig, data) ==
  [name |-> name, family |-> "NoncentralT", parents |-> <<mu, sig, "nu">>,
   value |-> data, observed |-> TRUE]

Latent(name) ==
  [name |-> name, family |-> priors[name].family, parents |-> <<>>,
   value |-> <<>>, observed |-> FALSE]

\* the names given to the two observed nodes at lines 54 and 56
ObservedNames == <<"t_1", "t_1">>

\* the list [t1, mu1, sig1, t2, mu2, sig2, v] given to pm.Model
ModelNodes ==
  <<NoncentralT(ObservedNames[1], "mu_1", "sigma_1", group1),
    Latent("mu_1"), Latent("sigma_1"),
    NoncentralT(ObservedNames[2], "mu_2", "sigma_2", group2),
    Latent("mu_2"), Latent("sigma_2"), Latent("nu")>>

BuildModel ==
  /\ pc = "model"
  /\ nodes' = ModelNodes
  /\ pc' = "sample"
  /\ UNCHANGED <<groups, N, show, checks, genRequest, group1, group2, pooled, priors,
                 engineCalls, engineConfig, engineFailures, mcmc, traces, derived,
                 stdout, plotted, plotFailures, outcome, retval, exc>>

\* -------------------------------------------------- line 62: the sampler
\* the arguments of mcmc.sample with iterations and burn-in exchanged
SampleArgs_swapped == <<BurnIn, TotalIterations, ThinStride>>

\* the arguments of mcmc.sample: iterations, burn-in, thinning stride
SampleArgs == <<TotalIterations, BurnIn, ThinStride>>

\* joint posterior draws the sampler may retain, one record per kept
\* iteration; the scales are chosen so that (sigma_1^2 + sigma_2^2)/2 is a
\* perfect square
DrawChoices ==
  {[mu_1 |-> 0, mu_2 |-> 2, sigma_1 |-> 1, sigma_2 |-> 1, nu |-> 30],
   [mu_1 |-> 2, mu_2 |-> 0, sigma_1 |-> 1, sigma_2 |-> 7, nu |-> 30],
   [mu_1 |-> 1, mu_2 |-> 1, sigma_1 |-> 7, sigma_2 |-> 7, nu |-> 5],
   [mu_1 |-> 3, mu_2 |-> 0, sigma_1 |-> 7, sigma_2 |-> 1, nu |-> 30]}

\* a scale draw lies in the support [lower, upper] of its uniform prior
InSupport(prior, x) ==
  /\ ~FLess(FromInt(x), prior.lower)
  /\ ~FLess(prior.upper, FromInt(x))

\* the draws the priors allow: when the support of a scale is the single
\* point 0 (pooled variance 0) the only scale a draw can hold is 0
Draws(pr) ==
  IF pr.sigma_1.lower = pr.sigma_1.upper
  THEN {[d EXCEPT !.sigma_1 = pr.sigma_1.lower.num, !.sigma_2 = pr.sigma_2.lower.num] :
           d \in DrawChoices}
  ELSE {d \in DrawChoices : /\ InSupport(pr.sigma_1, d.sigma_1)
                            /\ InSupport(pr.sigma_2, d.sigma_2)}

\* mcmc.sample returns: the engine holds its traces.  The engine keeps
\* (iterations - burn-in)/stride draws; the model keeps TraceLen of them.
SampleReturns ==
  /\ pc = "sample"
  /\ engineCalls' = engineCalls + 1
  /\ engineConfig' = SampleArgs
  /\ mcmc' \in [1..TraceLen -> Draws(priors)]
  /\ pc' = "traces"
  /\ UNCHANGED <<groups, N, show, checks, genRequest, group1, group2, pooled, priors, nodes,
                 engineFailures, traces, derived, stdout, plotted, plotFailures,
                 outcome, retval, exc>>

\* mcmc.sample raises and the exception is swallowed: the call goes on to
\* read whatever the engine holds
SampleRaises_swallowed ==
  /\ pc = "sample"
  /\ engineCalls' = engineCalls + 1
  /\ engineConfig' = SampleArgs
  /\ engineFailures' = engineFailures + 1
  /\ mcmc' \in [1..TraceLen -> Draws(priors)]
  /\ pc' = "traces"
  /\ UNCHANGED <<groups, N, show, checks, genRequest, group1, group2, pooled, priors,
                 nodes, traces, derived, stdout, plotted, plotFailures, outcome,
                 retval, exc>>

\* mcmc.sample raises: nothing catches it, the exception leaves the call
SampleRaises ==
  /\ pc = "sample"
  /\ engineCalls' = engineCalls + 1
  /\ engineConfig' = SampleArgs
  /\ engineFailures' = engineFailures + 1
  /\ outcome' = "raised"
  /\ exc' = "SamplingFailed"
  /\ pc' = "done"
  /\ UNCHANGED <<groups, N, show, checks, genRequest, group1, group2, pooled, priors, nodes,
                 mcmc, traces, derived, stdout, plotted, plotFailures, retval>>

\* ------------------------------------------------ lines 65-69: the traces
\* mcmc.trace(name)[:]
Trace(m, name) == [i \in DOMAIN m |-> m[i][name]]

ReadTraces ==
  /\ pc = "traces"
  /\ traces' = [mus1 |-> Trace(mcmc, "mu_1"), mus2 |-> Trace(mcmc, "mu_2"),
                sigmas1 |-> Trace(mcmc, "sigma_1"), sigmas2 |-> Trace(mcmc, "sigma_2"),
                nus |-> Trace(mcmc, "nu")]
  /\ pc' = "derive"
  /\ UNCHANGED <<groups, N, show, checks, genRequest, group1, group2, pooled, priors, nodes,
                 engineCalls, engineConfig, engineFailures, mcmc, derived, stdout,
                 plotted, plotFailures, outcome, retval, exc>>

\* ------------------------------------------- lines 70-73: derived quantities
\* elementwise a - b
Subtract(a, b) == [i \in DOMAIN a |-> a[i] - b[i]]

\* np.log, kept as the term ln(x)
Log(a) == [i \in DOMAIN a |-> [ln |-> a[i]]]

\* the root of a perfect square
ISqrt(n) == CHOOSE r \in 0..n : r * r = n

\* np.sqrt((s1**2 + s2**2)/2.) for one draw
PooledScale(s1, s2) == ISqrt((s1 * s1 + s2 * s2) \div 2)

\* (mus1-mus2)/np.sqrt((sigmas1**2+sigmas2**2)/2.)
EffectSize(m1, m2, s1, s2) ==
  [i \in DOMAIN m1 |->
     FDiv(FromInt(m1[i] - m2[i]), FromInt(PooledScale(s1[i], s2[i])))]

Derive ==
  /\ pc = "derive"
  /\ derived' = [diff_mus |-> Subtract(traces.mus1, traces.mus2),
                 diff_sigmas |-> Subtract(traces.sigmas1, traces.sigmas2),
                 normality |-> Log(traces.nus),
                 effect_size |-> EffectSize(traces.mus1, traces.mus2,
                                            traces.sigmas1, traces.sigmas2)]
  /\ pc' = "print"
  /\ UNCHANGED <<groups, N, show, checks, genRequest, group1, group2, pooled, priors, nodes,
                 engineCalls, engineConfig, engineFailures, mcmc, traces, stdout,
                 plotted, plotFailures, outcome, retval, exc>>

\* ------------------------------------------------ lines 74-75: the summary
RECURSIVE Pow10(_)
Pow10(k) == IF k = 0 THEN 1 ELSE 10 * Pow10(k - 1)

\* '%.4f' % x: x rounded to four decimals (ties to even); nan and inf print
\* as themselves
Format4f(x) ==
  IF ~IsFinite(x) THEN x
  ELSE LET scaled == x.num * Pow10(PrintDigits)
           q == scaled \div x.den
           r == scaled - q * x.den
           n == IF 2 * r > x.den THEN q + 1
                ELSE IF 2 * r < x.den THEN q
                ELSE IF q % 2 = 0 THEN q ELSE q + 1
       IN  Rat(n, Pow10(PrintDigits))

\* the summary with the effect size taken from the point estimates instead
\* of from the mean of the per-draw effect sizes
Summary_pointEstimates(t, d) ==
  <<Format4f(MeanInts(t.mus1)), Format4f(MeanInts(t.mus2)),
    Format4f(FDiv(FSub(MeanInts(t.mus1), MeanInts(t.mus2)),
                  MeanInts([i \in DOMAIN t.mus1 |->
                              PooledScale(t.sigmas1[i], t.sigmas2[i])])))>>

\* the three values of the print: mus1.mean(), mus2.mean(), effect_size.mean()
Summary(t, d) ==
  <<Format4f(MeanInts(t.mus1)), Format4f(MeanInts(t.mus2)),
    Format4f(MeanFloats(d.effect_size))>>

PrintSummary ==
  /\ pc = "print"
  /\ stdout' = Append(stdout,
                      [text |-> "Group 1 mu: %.4f Group 2 mu: %.4f Effect size: %.4f",
                       values |-> Summary(traces, derived)])
  /\ pc' = "show"
  /\ UNCHANGED <<groups, N, show, checks, genRequest, group1, group2, pooled, priors, nodes,
                 engineCalls, engineConfig, engineFailures, mcmc, traces, derived,
                 plotted, plotFailures, outcome, retval, exc>>

\* ------------------------------------------------ lines 77-105: the figure
\* the curves of the figure: the densities of mus1 and mus2, then of diff_mus
Curves(t, d) ==
  <<[label |-> "mu_1", data |-> t.mus1], [label |-> "mu_2", data |-> t.mus2],
    [label |-> "mu_1-mu_2", data |-> d.diff_mus]>>

\* show is false: the block is skipped
SkipPlots ==
  /\ pc = "show"
  /\ ~show
  /\ pc' = "return"
  /\ UNCHANGED <<groups, N, show, checks, genRequest, group1, group2, pooled, priors, nodes,
                 engineCalls, engineConfig, engineFailures, mcmc, traces, derived,
                 stdout, plotted, plotFailures, outcome, retval, exc>>

\* show is true and every plotting call returns
ShowPlots ==
  /\ pc = "show"
  /\ show
  /\ plotted' = Curves(traces, derived)
  /\ pc' = "return"
  /\ UNCHANGED <<groups, N, show, checks, genRequest, group1, group2, pooled, priors, nodes,
                 engineCalls, engineConfig, engineFailures, mcmc, traces, derived,
                 stdout, plotFailures, outcome, retval, exc>>

\* a plotting call raises and the exception is swallowed: the call returns
PlotsRaise_swallowed ==
  /\ pc = "show"
  /\ show
  /\ \E k \in 0..2 : plotted' = SubSeq(Curves(traces, derived), 1, k)
  /\ plotFailures' = plotFailures + 1
  /\ pc' = "return"
  /\ UNCHANGED <<groups, N, show, checks, genRequest, group1, group2, pooled, priors,
                 nodes, engineCalls, engineConfig, engineFailures, mcmc, traces,
                 derived, stdout, outcome, retval, exc>>

\* show is true and a plotting call raises after k curves were drawn:
\* nothing catches it, the exception leaves the call
PlotsRaise ==
  /\ pc = "show"
  /\ show
  /\ \E k \in 0..2 : plotted' = SubSeq(Curves(traces, derived), 1, k)
  /\ plotFailures' = plotFailures + 1
  /\ outcome' = "raised"
  /\ exc' = "VisualizationFailed"
  /\ pc' = "done"
  /\ UNCHANGED <<groups, N, show, checks, genRequest, group1, group2, pooled, priors, nodes,
                 engineCalls, engineConfig, engineFailures, mcmc, traces, derived,
                 stdout, retval>>

\* ------------------------------------------------------ line 107: return
Return ==
  /\ pc = "return"
  /\ outcome' = "returned"
  /\ retval' = "None"
  /\ pc' = "done"
  /\ UNCHANGED <<groups, N, show, checks, genRequest, group1, group2, pooled, priors, nodes,
                 engineCalls, engineConfig, engineFailures, mcmc, traces, derived,
                 stdout, plotted, plotFailures, exc>>

Next ==
  \/ ResolveGenerated
  \/ ResolveRejected
  \/ ResolveSupplied
  \/ Pool
  \/ BuildPriors
  \/ BuildModel
  \/ SampleReturns
  \/ SampleRaises
  \/ ReadTraces
  \/ Derive
  \/ PrintSummary
  \/ SkipPlots
  \/ ShowPlots
  \/ PlotsRaise
  \/ Return

Spec == Init /\ [][Next]_vars

TypeOK ==
  /\ pc \in {"resolve", "pool", "priors", "model", "sample", "traces", "derive",
             "print", "show", "return", "done"}
  /\ outcome \in {"running", "returned", "raised"}
  /\ engineCalls \in 0..1
  /\ Len(stdout) \in 0..1

\* =================================================================== claims
Supplied == ~groups.isNone

Finished == pc = "done"

PriorsBuilt == priors # NoPriors

DerivedBuilt == derived # NoDerived

\* the summary line has been printed
SummaryPrinted ==
  /\ pc \in {"show", "return", "done"}
  /\ engineCalls = 1
  /\ engineFailures = 0

RejectionLine(n) ==
  [text |-> "T-test requires only 2 groups, not %i", values |-> <<FromInt(n)>>]

\* ----------------------------------------------------------------------- C1
\* C1 as stated: a call with zero, one or three-or-more groups ends in the
\* error InvalidGroupCount and never in a normal return; a call with exactly
\* two samples, the engine and the plots not failing, ends successfully.
C1_Original ==
  /\ (Finished /\ Supplied /\ Len(groups.items) # 2)
       => (outcome = "raised" /\ exc = "InvalidGroupCount")
  /\ (Finished /\ Supplied /\ Len(groups.items) = 2
        /\ engineFailures = 0 /\ plotFailures = 0)
       => outcome = "returned"

\* C1 amended: a call with zero, one or three-or-more groups prints the line
\* 'T-test requires only 2 groups, not <count>' and returns None normally,
\* raising nothing; a call with exactly two samples, the engine and the plots
\* not failing, samples once, prints the summary and returns.
C1_Amended ==
  /\ (Finished /\ Supplied /\ Len(groups.items) # 2)
       => /\ outcome = "returned"
          /\ retval = "None"
          /\ exc = ""
          /\ stdout = <<RejectionLine(Len(groups.items))>>
  /\ (Finished /\ Supplied /\ Len(groups.items) = 2
        /\ engineFailures = 0 /\ plotFailures = 0)
       => /\ outcome = "returned"
          /\ engineCalls = 1
          /\ Len(stdout) = 1
          /\ stdout[1] # RejectionLine(2)

C1_Witness ==
  /\ Finished
  /\ Supplied
  /\ Len(groups.items) = 3
  /\ outcome = "returned"
  /\ stdout = <<RejectionLine(3)>>

\* ----------------------------------------------------------------------- C2
\* C2: in a call whose group collection has a size other than 2 the count
\* check is the only thing that takes effect: no data is generated, nothing
\* is pooled, no prior or model is built, the engine is not called, no trace
\* is read and nothing is plotted, before or after the rejection.
C2_NoWorkOnWrongCount ==
  (Supplied /\ Len(groups.items) # 2)
    => /\ genRequest = 0
       /\ group1 = <<>>
       /\ group2 = <<>>
       /\ pooled = <<>>
       /\ priors = NoPriors
       /\ nodes = <<>>
       /\ engineCalls = 0
       /\ mcmc = <<>>
       /\ traces = NoTraces
       /\ derived = NoDerived
       /\ plotted = <<>>
       /\ (Finished => checks = {"group_count"})

C2_Witness ==
  /\ Finished
  /\ Supplied
  /\ Len(groups.items) = 3
  /\ checks = {"group_count"}
  /\ Len(stdout) = 1

\* ----------------------------------------------------------------------- C3
RECURSIVE C3_Total(_, _)
C3_Total(f, k) == IF k = 0 THEN 0 ELSE f[k] + C3_Total(f, k - 1)

RECURSIVE C3_Product(_, _)
C3_Product(f, k) == IF k = 0 THEN 1 ELSE f[k] * C3_Product(f, k - 1)

\* the printed decimal p is the fraction num/den rounded to four decimals
C3_Rounds(p, num, den) ==
  /\ IsFinite(p)
  /\ Pow10(4) % p.den = 0
  /\ 2 * Pow10(4) * Abs(p.num * den - num * p.den) <= p.den * den

\* the pooled scale of draw i: the r with 2 r^2 = sigma_1^2 + sigma_2^2
C3_Scales ==
  [i \in DOMAIN mcmc |->
     CHOOSE r \in 0..(mcmc[i].sigma_1 + mcmc[i].sigma_2) :
        2 * r * r = mcmc[i].sigma_1 * mcmc[i].sigma_1 + mcmc[i].sigma_2 * mcmc[i].sigma_2]

\* the sum of the per-draw effect sizes over the common denominator
C3_EffectNumerator ==
  C3_Total([i \in DOMAIN mcmc |->
              (mcmc[i].mu_1 - mcmc[i].mu_2)
                * (C3_Product(C3_Scales, Len(mcmc)) \div C3_Scales[i])],
           Len(mcmc))

\* C3 as stated: a call that passes validation and whose sampling completes
\* returns a value that holds the three estimates; the returned value is
\* never empty.
C3_Original ==
  (Finished /\ outcome = "returned" /\ engineCalls = 1) => retval # "None"

\* C3 amended: a call that passes validation and whose sampling completes
\* prints the group-1 mean, the group-2 mean and the effect size, each the
\* mean of its trace written with four decimals, and returns None; with show
\* true the raw mean traces and the difference-of-means trace go to the
\* plots, not to the caller.
C3_Amended ==
  /\ (Finished /\ outcome = "returned") => retval = "None"
  /\ SummaryPrinted
       => /\ Len(stdout) = 1
          /\ Len(stdout[1].values) = 3
          /\ C3_Rounds(stdout[1].values[1],
                       C3_Total(Trace(mcmc, "mu_1"), Len(mcmc)), Len(mcmc))
          /\ C3_Rounds(stdout[1].values[2],
                       C3_Total(Trace(mcmc, "mu_2"), Len(mcmc)), Len(mcmc))
          /\ IF \A i \in DOMAIN mcmc : C3_Scales[i] > 0
             THEN C3_Rounds(stdout[1].values[3], C3_EffectNumerator,
                            Len(mcmc) * C3_Product(C3_Scales, Len(mcmc)))
             ELSE ~IsFinite(stdout[1].values[3])
  /\ (show /\ SummaryPrinted /\ outcome # "raised" /\ pc # "show")
       => /\ Len(plotted) = 3
          /\ plotted[1].data = Trace(mcmc, "mu_1")
          /\ plotted[2].data = Trace(mcmc, "mu_2")
          /\ \A i \in DOMAIN mcmc :
               plotted[3].data[i] = mcmc[i].mu_1 - mcmc[i].mu_2

C3_Witness ==
  /\ Finished
  /\ outcome = "returned"
  /\ show
  /\ SummaryPrinted
  /\ Len(plotted) = 3
  /\ stdout[1].values[1] # stdout[1].values[2]
  /\ IsFinite(stdout[1].values[3])
  /\ stdout[1].values[3].den > 1

\* ----------------------------------------------------------------------- C4
ValidConfig(c) == 0 <= c[2] /\ c[2] < c[1] /\ c[3] >= 1

\* C4 as stated: the run configuration is validated before the engine is
\* invoked.
C4_Original == engineCalls > 0 => "run_config" \in checks

\* C4 amended: the engine is only ever invoked with the fixed configuration
\* 40000 iterations, 10000 burn-in, stride 2, which has 0 <= burn-in <
\* iterations and stride >= 1; the call takes no run configuration from its
\* caller and makes no check of one.
C4_Amended ==
  /\ "run_config" \notin checks
  /\ engineCalls > 0
       => /\ engineConfig = <<TotalIterations, BurnIn, ThinStride>>
          /\ ValidConfig(engineConfig)

C4_Witness ==
  /\ engineCalls = 1
  /\ engineFailures = 0
  /\ engineConfig = <<TotalIterations, BurnIn, ThinStride>>

\* ----------------------------------------------------------------------- C5
\* C5 as stated: when the plots fail after sampling, the call still ends by
\* delivering the result to its caller, the failure being reported apart.
C5_Original == (Finished /\ plotFailures > 0) => outcome = "returned"

\* C5 amended: when the plots fail after sampling, the failure leaves the
\* call as its exception; the summary line, printed before the plots began,
\* stays as printed and the traces and derived values are not altered.
C5_Amended ==
  [][plotFailures' > plotFailures
       => /\ outcome' = "raised"
          /\ exc' = "VisualizationFailed"
          /\ pc' = "done"
          /\ Len(stdout) = 1
          /\ stdout' = stdout
          /\ traces' = traces
          /\ derived' = derived
          /\ retval' = retval]_vars

C5_Witness ==
  /\ Finished
  /\ plotFailures = 1
  /\ exc = "VisualizationFailed"
  /\ Len(stdout) = 1
  /\ Len(plotted) = 2

\* ----------------------------------------------------------------------- C6
\* C6: the engine is invoked at most once in a call; when that invocation
\* fails the failure is the outcome of the call, the engine is not invoked
\* again, no trace is read and no summary is derived, printed or plotted.
C6_FailureSurfaces ==
  /\ engineCalls <= 1
  /\ engineFailures > 0
       => /\ Finished
          /\ outcome = "raised"
          /\ exc = "SamplingFailed"
          /\ engineCalls = 1
          /\ mcmc = <<>>
          /\ traces = NoTraces
          /\ derived = NoDerived
          /\ stdout = <<>>
          /\ plotted = <<>>

C6_Witness ==
  /\ Finished
  /\ engineFailures = 1
  /\ engineCalls = 1
  /\ exc = "SamplingFailed"

\* ----------------------------------------------------------------------- C7
\* C7: the call on (A, B) and the call on (B, A) build the same priors: both
\* group-mean priors are centred on the mean of all values of A and B with
\* the same precision, both scale priors have the same bounds; and with the
\* two mean traces exchanged the difference-of-means trace is negated.
C7_OrderIndependent ==
  /\ PriorsBuilt
       => /\ priors = PriorSpecs(Concatenate(group2, group1), N)
          /\ priors.mu_1.mu = priors.mu_2.mu
          /\ priors.mu_1.mu.num * (Len(group2) + Len(group1))
               = priors.mu_1.mu.den * (SumInts(group2) + SumInts(group1))
          /\ priors.mu_1.tau = priors.mu_2.tau
          /\ priors.sigma_1.lower = priors.sigma_2.lower
          /\ priors.sigma_1.upper = priors.sigma_2.upper
  /\ DerivedBuilt
       => \A i \in DOMAIN derived.diff_mus :
            Subtract(traces.mus2, traces.mus1)[i] = -derived.diff_mus[i]

C7_Witness ==
  /\ Supplied
  /\ PriorsBuilt
  /\ DerivedBuilt
  /\ MeanInts(group1) # MeanInts(group2)
  /\ Len(group1) # Len(group2)
  /\ derived.diff_mus[1] # 0

\* ----------------------------------------------------------------------- C8
\* C8: with groups unset the call asks gen_data for two samples of size N,
\* the sampleSize argument; the size of the generated samples and the sample
\* size that scales the precision of the group-mean priors are the same.
C8_Original ==
  genRequest > 0
    => /\ genRequest = N
       /\ Len(group1) = N
       /\ Len(group2) = N

\* ----------------------------------------------------------------------- C9
\* C9: the nodes of the model handed to the engine, five latent parameters
\* and two observed nodes, carry pairwise different names.
C9_Original ==
  nodes # <<>>
    => /\ Len(nodes) = 7
       /\ \A i, j \in DOMAIN nodes : i # j => nodes[i].name # nodes[j].name

\* ---------------------------------------------------------------------- C10
\* C10: for two non-empty samples both scale priors have a lower bound that
\* is strictly positive and strictly below the upper bound, the precision of
\* the mean priors comes from no division by zero, every scale draw is
\* strictly positive and the denominator of the effect size is never zero.
C10_Original ==
  /\ PriorsBuilt
       => /\ FLess(FromInt(0), priors.sigma_1.lower)
          /\ FLess(priors.sigma_1.lower, priors.sigma_1.upper)
          /\ FLess(FromInt(0), priors.sigma_2.lower)
          /\ FLess(priors.sigma_2.lower, priors.sigma_2.upper)
          /\ IsFinite(priors.mu_1.tau)
          /\ IsFinite(priors.mu_2.tau)
  /\ DerivedBuilt
       => \A i \in DOMAIN traces.sigmas1 :
            /\ traces.sigmas1[i] > 0
            /\ traces.sigmas2[i] > 0
            /\ PooledScale(traces.sigmas1[i], traces.sigmas2[i]) # 0
            /\ IsFinite(derived.effect_size[i])

=============================================================================
